---- MODULE Spec2Model ----
(***************************************************************************)
(* Paired image augmentation (dataset_aug.py), its callers (test_app.py,   *)
(* the command line of dataset_aug.py) and the batch sketch conversion     *)
(* (convert_source_to_sketch.py).                                          *)
(*                                                                         *)
(* An image is the record of what the geometry code reads and writes: its  *)
(* size and how it was derived.  Pixels are not modelled; the two colour   *)
(* statistics an input picture has (mean, edge_mode) are symbolic values.  *)
(***************************************************************************)
EXTENDS Integers, Sequences, FiniteSets, TLC

\* ------------------------------------------------------------------ bounds
MaxDim == 3
MaxCopies == 2
MaxOut == 2
MaxFiles == 2

\* ------------------------------------------------------------ value domains
\* Scales are floats whose reciprocal is a dyadic rational, written
\* <<numerator, denominator>>: 1/scale and every product with a small
\* integer are then exact in double precision, so int(x * canvas_scale) is
\* the floor of the exact quotient.
Scales == {<<1, 2>>, <<1, 1>>, <<2, 1>>}
\* The angles random.uniform can return that image.rotate(expand=True)
\* handles by transposition (multiples of 90 degrees).
Angles == {-90, 0, 90}
RotationRanges == {0, 90}
White == "white"

Max(a, b) == IF a >= b THEN a ELSE b
Min(a, b) == IF a <= b THEN a ELSE b
ScaleLeq(s, t) == s[1] * t[2] <= t[1] * s[2]

\* A decoded picture as Image.open returns it.
Picture(role, w, h) ==
    [kind |-> "Image", role |-> role, width |-> w, height |-> h,
     mean |-> role \o "_mean", edge_mode |-> role \o "_edge",
     expanded |-> FALSE, rotated |-> FALSE, angle |-> 0, mirror |-> FALSE,
     bg |-> "none", canvas_scale |-> <<1, 1>>, box |-> <<>>]
\* A file path (a str) as the command line passes it.
PathOf(folder, name) == [kind |-> "str", folder |-> folder, name |-> name]
None == [kind |-> "None"]

\* File names, <<stem, extension>>.
Stems == {"a", "b"}
Exts == {"jpg", "jpeg", "png", "JPG", "txt"}
Names == Stems \X Exts
\* str.lower() on an extension
lower(ext) == IF ext = "JPG" THEN "jpg" ELSE ext
\* name.endswith("." + ext)
endswith(name, ext) == name[2] = ext
\* The orders os.listdir can return for folders of at most m files.
Listings(S, m) == {l \in UNION {[1..j -> S] : j \in 0..m} :
                    \A a \in DOMAIN l, b \in DOMAIN l : a # b => l[a] # l[b]}

VARIABLES
    \* process_images (dataset_aug.py) and the last process_image_pair call
    source_img, target_img, params,
    i, aug_sources, aug_targets, pc, exc, frame,
    \* the command line of dataset_aug.py
    source_folder, target_folder, n, cli_pc, aug_source_dir, aug_target_dir,
    \* process_images of convert_source_to_sketch.py
    input_folder, image_files, k, sk_pc, processed_image, output_folder,
    \* scribble_xdog (lineart_util.py), which the sketch conversion calls
    H_raw, W_raw, res, thr_a, xd_pc, H_target, W_target, H_pad, W_pad,
    img_padded, dog, result, removed

aug_vars == <<source_img, target_img, params, i, aug_sources, aug_targets, pc, exc, frame>>
cli_vars == <<source_folder, target_folder, n, cli_pc, aug_source_dir, aug_target_dir>>
xd_vars == <<H_raw, W_raw, res, thr_a, xd_pc, H_target, W_target, H_pad, W_pad, img_padded, dog, result, removed>>
sk_vars == <<input_folder, image_files, k, sk_pc, processed_image, output_folder, xd_vars>>
vars == <<aug_vars, cli_vars, sk_vars>>

\* ------------------------------------------------------- dataset_aug.py
get_average_color(image) == image.mean

get_edge_mode_color(img, edge_width) == img.edge_mode

\* the average colour tested before the edge-mode colour
fill_color_avg_first(image, is_edge_mode_fill, is_avg_color_fill) ==
    IF is_avg_color_fill THEN get_average_color(image)
    ELSE IF is_edge_mode_fill THEN get_edge_mode_color(image, 10)
    ELSE White

fill_color(image, is_edge_mode_fill, is_avg_color_fill) ==
    IF is_edge_mode_fill THEN get_edge_mode_color(image, 10)
    ELSE IF is_avg_color_fill THEN get_average_color(image)
    ELSE White

source_fill_color_of(source_image, target_image, p) ==
    fill_color(source_image, p.source_is_edge_mode_fill, p.source_is_avg_color_fill)

target_fill_color_of(source_image, target_image, p) ==
    fill_color(target_image, p.target_is_edge_mode_fill, p.target_is_avg_color_fill)

\* the short side taken for the canvas
long_side_short(image) == Min(image.width, image.height)

long_side(image) == Max(image.width, image.height)

paste_x(image) == (long_side(image) - image.width) \div 2

paste_y(image) == (long_side(image) - image.height) \div 2

\* Image.new(long_side, long_side, fill) with the image pasted at
\* (paste_x, paste_y).
expand_canvas(image, fill) ==
    [image EXCEPT !.width = long_side(image), !.height = long_side(image),
                  !.bg = fill, !.expanded = TRUE]

\* image.rotate(angle, expand=True, fillcolor): for angle % 360 in
\* {0, 180} the size is kept, for {90, 270} width and height swap.
rotate_image(image, angle, fill_color_) ==
    LET a == angle % 360 IN
    [image EXCEPT !.width = IF a \in {90, 270} THEN image.height ELSE image.width,
                  !.height = IF a \in {90, 270} THEN image.width ELSE image.height,
                  !.rotated = TRUE, !.angle = angle]

apply_random_flip(image, is_horizontal) ==
    IF is_horizontal THEN [image EXCEPT !.mirror = ~image.mirror] ELSE image

\* What line 112 / 113 hands to rotate_image: the image the function was
\* called with, not the (possibly expanded) base image.
rotation_input(image, base) == image

\* the target turned the other way
rotate_pair_opposite(source_image, target_image, base_source, base_target, angle, sfill, tfill) ==
    <<rotate_image(rotation_input(source_image, base_source), angle, sfill),
      rotate_image(rotation_input(target_image, base_target), -angle, tfill)>>

rotate_pair(source_image, target_image, base_source, base_target, angle, sfill, tfill) ==
    <<rotate_image(rotation_input(source_image, base_source), angle, sfill),
      rotate_image(rotation_input(target_image, base_target), angle, tfill)>>

flip_pair(base_source, base_target, is_horizontal) ==
    <<apply_random_flip(base_source, is_horizontal),
      apply_random_flip(base_target, is_horizontal)>>

canvas_scale_of(scale) == <<scale[2], scale[1]>>

\* int(x * canvas_scale)
int_times(x, cs) == (x * cs[1]) \div cs[2]

scaled_canvas(base, cs, fill) ==
    IF cs[1] > cs[2]
    THEN [base EXCEPT !.width = int_times(base.width, cs),
                      !.height = int_times(base.height, cs),
                      !.bg = fill, !.canvas_scale = cs]
    ELSE base

crop_size_of(base, cs) == int_times(Min(base.height, base.width), cs)

\* the upper end taken as exclusive of one more value
randint_past_end(a, b) == a .. (b + 1)

\* random.randint(a, b): the integers it can return (none: ValueError)
randint(a, b) == a .. b

\* the ratio taken upside down
target_offset_inverse(source_offset, orig_target_dim, orig_source_dim) ==
    (source_offset * orig_source_dim) \div orig_target_dim

target_offset(source_offset, orig_target_dim, orig_source_dim) ==
    (source_offset * orig_target_dim) \div orig_source_dim

crop_square(cropped_rect_image, left, top, crop_size) ==
    [cropped_rect_image EXCEPT !.width = crop_size, !.height = crop_size,
                               !.box = <<left, top, left + crop_size, top + crop_size>>]

\* the crop returned as it is
resize_skipped(image, output_size) == image

\* Image.resize: an image of the size asked for, whatever the size of the
\* crop it is made from (an empty crop resamples to a blank image).
resize(image, output_size) ==
    [image EXCEPT !.width = output_size[1], !.height = output_size[2]]

\* The random calls one draw makes, in program order (lines 111, 118, 124,
\* 146, 147).
rng_calls_of(p) ==
    (IF p.rotation_range > 0 THEN <<"uniform:angle">> ELSE <<>>)
    \o (IF p.is_flip THEN <<"choice:is_horizontal">> ELSE <<>>)
    \o <<"uniform:scale", "randint:left_source", "randint:top_source">>

NoFrame ==
    [live |-> FALSE, exc |-> "none"]

\* process_image_pair up to line 143, for the sampled angle, flip and scale.
pair_geometry(source_image, target_image, p, angle, is_horizontal, scale) ==
    LET sfill == source_fill_color_of(source_image, target_image, p)
        tfill == target_fill_color_of(source_image, target_image, p)
        exp_s == IF p.expand_to_long_side THEN expand_canvas(source_image, sfill) ELSE source_image
        exp_t == IF p.expand_to_long_side THEN expand_canvas(target_image, tfill) ELSE target_image
        rot == IF p.rotation_range > 0
               THEN rotate_pair(source_image, target_image, exp_s, exp_t, angle, sfill, tfill)
               ELSE <<exp_s, exp_t>>
        flp == IF p.is_flip THEN flip_pair(rot[1], rot[2], is_horizontal) ELSE rot
        cs == canvas_scale_of(scale)
    IN  [live |-> TRUE, exc |-> "none",
         orig_source_width |-> source_image.width, orig_source_height |-> source_image.height,
         orig_target_width |-> target_image.width, orig_target_height |-> target_image.height,
         source_fill_color |-> sfill, target_fill_color |-> tfill,
         expanded_source |-> exp_s, expanded_target |-> exp_t,
         source_paste_x |-> paste_x(source_image), source_paste_y |-> paste_y(source_image),
         target_paste_x |-> paste_x(target_image), target_paste_y |-> paste_y(target_image),
         angle |-> angle, is_horizontal |-> is_horizontal, scale |-> scale,
         canvas_scale |-> cs,
         base_source |-> flp[1], base_target |-> flp[2],
         scaled_source |-> scaled_canvas(flp[1], cs, sfill),
         scaled_target |-> scaled_canvas(flp[2], cs, tfill),
         crop_source_size |-> crop_size_of(flp[1], cs),
         crop_target_size |-> crop_size_of(flp[2], cs),
         rng_calls |-> rng_calls_of(p)]

\* lines 145-156, for the sampled corner
pair_result(g, left_source, top_source, output_size) ==
    LET left_target == target_offset(left_source, g.orig_target_width, g.orig_source_width)
        top_target == target_offset(top_source, g.orig_target_height, g.orig_source_height)
    IN  [left_source |-> left_source, top_source |-> top_source,
         left_target |-> left_target, top_target |-> top_target,
         final_source |-> resize(crop_square(g.scaled_source, left_source, top_source,
                                             g.crop_source_size), output_size),
         final_target |-> resize(crop_square(g.scaled_target, left_target, top_target,
                                             g.crop_target_size), output_size)]

AngleDraws(p) == IF p.rotation_range > 0
                 THEN {a \in Angles : -p.rotation_range <= a /\ a <= p.rotation_range}
                 ELSE {0}
FlipDraws(p) == IF p.is_flip THEN BOOLEAN ELSE {FALSE}
ScaleDraws(p) == {s \in Scales : ScaleLeq(p.min_scale, s) /\ ScaleLeq(s, p.max_scale)}

\* process_image_pair(source_image, target_image, **p): the set of ways one
\* call can end, one per value the random generator can return.  A call
\* that raises ends with exc set and returns nothing.
process_image_pair(source_image, target_image, p) ==
    IF source_image.kind # "Image" \/ target_image.kind # "Image"
    THEN {[live |-> TRUE, exc |-> "AttributeError"]}
    ELSE UNION {
           LET g == pair_geometry(source_image, target_image, p, angle, is_horizontal, scale)
               lefts == randint(0, g.scaled_source.width - g.crop_source_size)
               tops == randint(0, g.scaled_source.height - g.crop_source_size)
           IN  IF lefts = {} \/ tops = {}
               THEN {[g EXCEPT !.exc = "ValueError"]}
               ELSE {g @@ pair_result(g, left_source, top_source, p.output_size) :
                       left_source \in lefts, top_source \in tops}
           : angle \in AngleDraws(p), is_horizontal \in FlipDraws(p), scale \in ScaleDraws(p)}

\* ------------------------------------------------------------- settings
FillFlags == [source_is_avg_color_fill : BOOLEAN, source_is_edge_mode_fill : BOOLEAN,
              target_is_avg_color_fill : BOOLEAN, target_is_edge_mode_fill : BOOLEAN]

Geometry == {g \in [is_flip : BOOLEAN, rotation_range : RotationRanges,
                    min_scale : Scales, max_scale : Scales,
                    expand_to_long_side : BOOLEAN] : ScaleLeq(g.min_scale, g.max_scale)}

\* reset_params, lines 137-151: the settings the application starts with
DefaultSettings ==
    [is_flip |-> TRUE, rotation_range |-> 0, min_scale |-> <<1, 1>>,
     max_scale |-> <<1, 1>>, expand_to_long_side |-> FALSE,
     source_is_avg_color_fill |-> TRUE, source_is_edge_mode_fill |-> FALSE,
     target_is_avg_color_fill |-> FALSE, target_is_edge_mode_fill |-> FALSE]

\* one outcome of randomize_params, lines 121-135, with every random step on
RandomizedSettings ==
    [is_flip |-> TRUE, rotation_range |-> 90, min_scale |-> <<1, 2>>,
     max_scale |-> <<1, 1>>, expand_to_long_side |-> FALSE,
     source_is_avg_color_fill |-> FALSE, source_is_edge_mode_fill |-> TRUE,
     target_is_avg_color_fill |-> TRUE, target_is_edge_mode_fill |-> FALSE]

\* test_process_image_pair_with_expand_to_long_side, lines 156-172
TestSettings ==
    [output_size |-> <<512, 512>>, num_copies |-> 1,
     is_flip |-> FALSE, rotation_range |-> 0, min_scale |-> <<1, 1>>,
     max_scale |-> <<1, 1>>, expand_to_long_side |-> TRUE,
     source_is_avg_color_fill |-> TRUE, source_is_edge_mode_fill |-> FALSE,
     target_is_avg_color_fill |-> TRUE, target_is_edge_mode_fill |-> FALSE]

\* The settings explored for one call: every geometry with the default
\* fill flags, and every combination of fill flags with the geometries that
\* sample no flip and one scale.
Settings ==
    {[key \in DOMAIN DefaultSettings |-> IF key \in DOMAIN g THEN g[key] ELSE DefaultSettings[key]] :
        g \in Geometry}
    \cup {[is_flip |-> FALSE, rotation_range |-> r, min_scale |-> s, max_scale |-> s,
           expand_to_long_side |-> e] @@ f :
             e \in BOOLEAN, r \in RotationRanges, s \in Scales, f \in FillFlags}

Pictures(role) == {Picture(role, w, h) : w \in 1..MaxDim, h \in 1..MaxDim}

\* Pairs with the same aspect ratio, which line 149 assumes.
AlignedPairs ==
    {pr \in Pictures("source") \X Pictures("target") :
        pr[1].width * pr[2].height = pr[2].width * pr[1].height}

CliIdle ==
    /\ source_folder = <<>>
    /\ target_folder = {}
    /\ n = 0
    /\ cli_pc = "unused"
    /\ aug_source_dir = {}
    /\ aug_target_dir = {}

\* scribble_xdog not called
XdogIdle ==
    /\ H_raw = 0 /\ W_raw = 0 /\ res = 0 /\ thr_a = 0
    /\ xd_pc = "unused"
    /\ H_target = 0 /\ W_target = 0 /\ H_pad = 0 /\ W_pad = 0
    /\ img_padded = None
    /\ dog = 0
    /\ result = None
    /\ removed = None

SketchIdle ==
    /\ input_folder = <<>>
    /\ image_files = <<>>
    /\ k = 0
    /\ sk_pc = "unused"
    /\ processed_image = None
    /\ output_folder = {}
    /\ XdogIdle

LoopIdle ==
    /\ i = 0
    /\ aug_sources = <<>>
    /\ aug_targets = <<>>

\* --------------------------------------- one call of process_image_pair
\* The call as test_app.py line 159 makes it, and as each pass of the
\* process_images loop makes it.
InitPair ==
    /\ \/ /\ source_img \in Pictures("source")
          /\ target_img \in Pictures("target")
          /\ \E s \in Settings :
                params = [num_copies |-> 1, output_size |-> <<MaxOut, MaxOut>>] @@ s
       \/ /\ source_img = Picture("source", 800, 400)
          /\ target_img = Picture("target", 800, 400)
          /\ params = TestSettings
    /\ pc = "process_image_pair"
    /\ exc = "none"
    /\ frame = NoFrame
    /\ LoopIdle
    /\ CliIdle
    /\ SketchIdle

CallProcessImagePair ==
    /\ pc = "process_image_pair"
    /\ \E out \in process_image_pair(source_img, target_img, params) :
          /\ frame' = out
          /\ exc' = out.exc
          /\ pc' = IF out.exc = "none" THEN "returned" ELSE "raised"
    /\ UNCHANGED <<source_img, target_img, params, i, aug_sources, aug_targets, cli_vars, sk_vars>>

Init == InitPair

Next == CallProcessImagePair

Spec == Init /\ [][Next]_vars

\* ------------------- one call on a target that is the source enlarged
MaxFactor == 2

\* The call on a registered pair: the target is the source's picture at
\* factor times its resolution (same aspect ratio), rotation disabled.
InitAligned ==
    /\ source_img \in Pictures("source")
    /\ \E factor \in 1 .. MaxFactor :
          target_img = Picture("target", factor * source_img.width, factor * source_img.height)
    /\ \E s \in {t \in Settings : t.rotation_range = 0} :
          params = [num_copies |-> 1, output_size |-> <<MaxOut, MaxOut>>] @@ s
    /\ pc = "process_image_pair"
    /\ exc = "none"
    /\ frame = NoFrame
    /\ LoopIdle
    /\ CliIdle
    /\ SketchIdle

NextAligned == CallProcessImagePair

SpecAligned == InitAligned /\ [][NextAligned]_vars

\* ------------------------------------------------ process_images (loop)
\* the source image appended to both lists
append_pair_same(sources, targets, aug_source, aug_target) ==
    <<Append(sources, aug_source), Append(targets, aug_source)>>

\* lines 193-194
append_pair(sources, targets, aug_source, aug_target) ==
    <<Append(sources, aug_source), Append(targets, aug_target)>>

\* One pass of the loop body, lines 176-194: a process_image_pair call and
\* the two appends; an exception leaves the function.
ProcessImagesIter ==
    /\ pc = "process_images"
    /\ i < params.num_copies
    /\ \E out \in process_image_pair(source_img, target_img, params) :
          /\ frame' = out
          /\ exc' = out.exc
          /\ IF out.exc = "none"
             THEN /\ aug_sources' =
                        append_pair(aug_sources, aug_targets, out.final_source, out.final_target)[1]
                  /\ aug_targets' =
                        append_pair(aug_sources, aug_targets, out.final_source, out.final_target)[2]
                  /\ i' = i + 1
                  /\ pc' = pc
             ELSE /\ pc' = "raised"
                  /\ UNCHANGED <<i, aug_sources, aug_targets>>
    /\ UNCHANGED <<source_img, target_img, params, cli_vars, sk_vars>>

\* line 196
ProcessImagesReturn ==
    /\ pc = "process_images"
    /\ i = params.num_copies
    /\ pc' = "returned"
    /\ UNCHANGED <<source_img, target_img, params, i, aug_sources, aug_targets, exc, frame, cli_vars, sk_vars>>

\* process_multiple_images, test_app.py lines 28-48: both files opened and
\* process_images called with output_size = (output_size, output_size).
InitBatch ==
    /\ \E pr \in AlignedPairs :
          /\ source_img = pr[1]
          /\ target_img = pr[2]
    /\ \E num_copies \in 0..MaxCopies, s \in {DefaultSettings, RandomizedSettings} :
          params = [num_copies |-> num_copies, output_size |-> <<MaxOut, MaxOut>>] @@ s
    /\ pc = "process_images"
    /\ exc = "none"
    /\ frame = NoFrame
    /\ LoopIdle
    /\ CliIdle
    /\ SketchIdle

NextBatch == ProcessImagesIter \/ ProcessImagesReturn

SpecBatch == InitBatch /\ [][NextBatch]_vars

\* ------------------------------------- dataset_aug.py, the command line
\* lines 231-232, a name that does not end in ".jpg"
CliSkip ==
    /\ cli_pc = "loop"
    /\ n < Len(source_folder)
    /\ ~endswith(source_folder[n + 1], "jpg")
    /\ n' = n + 1
    /\ UNCHANGED <<source_folder, target_folder, cli_pc, aug_source_dir, aug_target_dir>>
    /\ UNCHANGED <<aug_vars, sk_vars>>

\* lines 232-250: process_images is handed the two paths
CliCall ==
    /\ cli_pc = "loop"
    /\ n < Len(source_folder)
    /\ endswith(source_folder[n + 1], "jpg")
    /\ source_img' = PathOf("source_folder", source_folder[n + 1])
    /\ target_img' = PathOf("target_folder", source_folder[n + 1])
    /\ i' = 0
    /\ aug_sources' = <<>>
    /\ aug_targets' = <<>>
    /\ pc' = "process_images"
    /\ cli_pc' = "call"
    /\ UNCHANGED <<params, exc, frame, source_folder, target_folder, n,
                   aug_source_dir, aug_target_dir, sk_vars>>

\* line 236: the returned lists are dropped, the loop goes on
CliReturn ==
    /\ cli_pc = "call"
    /\ pc = "returned"
    /\ n' = n + 1
    /\ cli_pc' = "loop"
    /\ pc' = "idle"
    /\ UNCHANGED <<source_img, target_img, params, i, aug_sources, aug_targets, exc, frame,
                   source_folder, target_folder, aug_source_dir, aug_target_dir, sk_vars>>

\* an exception of process_images leaves the loop and ends the program
CliRaise ==
    /\ cli_pc = "call"
    /\ pc = "raised"
    /\ cli_pc' = "traceback"
    /\ UNCHANGED <<aug_vars, source_folder, target_folder, n, aug_source_dir, aug_target_dir,
                   sk_vars>>

CliExit ==
    /\ cli_pc = "loop"
    /\ n = Len(source_folder)
    /\ cli_pc' = "exit"
    /\ UNCHANGED <<aug_vars, source_folder, target_folder, n, aug_source_dir, aug_target_dir,
                   sk_vars>>

\* lines 199-228: the arguments parsed (their defaults, any num_copies), the
\* two output paths joined; no folder is created.
InitCli ==
    /\ source_folder \in Listings(Names, MaxFiles)
    /\ target_folder \in SUBSET {source_folder[j] : j \in DOMAIN source_folder}
    /\ n = 0
    /\ cli_pc = "loop"
    /\ aug_source_dir = {}
    /\ aug_target_dir = {}
    /\ \E num_copies \in 0..MaxCopies :
          params = [num_copies |-> num_copies, output_size |-> <<MaxOut, MaxOut>>]
                   @@ DefaultSettings
    /\ source_img = None
    /\ target_img = None
    /\ pc = "idle"
    /\ exc = "none"
    /\ frame = NoFrame
    /\ LoopIdle
    /\ SketchIdle

NextCli ==
    \/ CliSkip
    \/ CliCall
    \/ ProcessImagesIter
    \/ ProcessImagesReturn
    \/ CliReturn
    \/ CliRaise
    \/ CliExit

SpecCli == InitCli /\ [][NextCli]_vars

\* ------------------------------------------ convert_source_to_sketch.py
\* What a file holds: a picture of some PIL mode, or bytes that do not decode.
Modes == {"RGB", "RGBA", "L", "LA", "corrupt"}
Files == [name : Names, mode : Modes]

\* line 54
is_image_file(f) == lower(f.name[2]) \in {"png", "jpg", "jpeg"}

\* Image.open and convert_pil_to_sketch, line 64: the sketch, or the
\* exception raised.  HWC3 (lineart_util.py lines 8-14) accepts 1, 3 or 4
\* channels.
channels(mode) ==
    CASE mode = "L" -> 1 [] mode = "LA" -> 2 [] mode = "RGB" -> 3 [] OTHER -> 4

convert_file(f) ==
    IF f.mode = "corrupt" THEN [kind |-> "raise", exc |-> "UnidentifiedImageError"]
    ELSE IF channels(f.mode) \notin {1, 3, 4} THEN [kind |-> "raise", exc |-> "AssertionError"]
    ELSE [kind |-> "Image", sketch_of |-> f.name]

\* lines 54-57: the image files listed, the output folder made
SketchList ==
    /\ sk_pc = "start"
    /\ image_files' = SelectSeq(input_folder, is_image_file)
    /\ k' = 0
    /\ sk_pc' = "loop"
    /\ UNCHANGED <<input_folder, processed_image, output_folder, aug_vars, cli_vars, xd_vars>>

\* the output file created before the conversion is run
SketchConvertWritesFirst ==
    /\ sk_pc = "loop"
    /\ k < Len(image_files)
    /\ output_folder' =
          {o \in output_folder : o.name # image_files[k + 1].name}
          \cup {[name |-> image_files[k + 1].name, image |-> None]}
    /\ LET r == convert_file(image_files[k + 1])
       IN  IF r.kind = "raise"
           THEN sk_pc' = "raised" /\ UNCHANGED processed_image
           ELSE sk_pc' = "save" /\ processed_image' = r
    /\ UNCHANGED <<input_folder, image_files, k, aug_vars, cli_vars, xd_vars>>

\* lines 60-64: the next file opened and converted; an exception leaves
\* the loop and the function
SketchConvert ==
    /\ sk_pc = "loop"
    /\ k < Len(image_files)
    /\ LET r == convert_file(image_files[k + 1])
       IN  IF r.kind = "raise"
           THEN sk_pc' = "raised" /\ UNCHANGED processed_image
           ELSE sk_pc' = "save" /\ processed_image' = r
    /\ UNCHANGED <<input_folder, image_files, k, output_folder, aug_vars, cli_vars, xd_vars>>

\* line 65
SketchSave ==
    /\ sk_pc = "save"
    /\ output_folder' =
          {o \in output_folder : o.name # image_files[k + 1].name}
          \cup {[name |-> image_files[k + 1].name, image |-> processed_image]}
    /\ k' = k + 1
    /\ sk_pc' = "loop"
    /\ UNCHANGED <<input_folder, image_files, processed_image, aug_vars, cli_vars, xd_vars>>

SketchReturn ==
    /\ sk_pc = "loop"
    /\ k = Len(image_files)
    /\ sk_pc' = "returned"
    /\ UNCHANGED <<input_folder, image_files, k, processed_image, output_folder,
                   aug_vars, cli_vars, xd_vars>>

InitSketch ==
    /\ \E l \in Listings(Names, MaxFiles) :
          \E m \in [DOMAIN l -> Modes] :
             input_folder = [j \in DOMAIN l |-> [name |-> l[j], mode |-> m[j]]]
    /\ image_files = <<>>
    /\ k = 0
    /\ sk_pc = "start"
    /\ processed_image = None
    /\ output_folder = {}
    /\ source_img = None
    /\ target_img = None
    /\ params = DefaultSettings
    /\ pc = "idle"
    /\ exc = "none"
    /\ frame = NoFrame
    /\ LoopIdle
    /\ CliIdle
    /\ XdogIdle

NextSketch == SketchList \/ SketchConvert \/ SketchSave \/ SketchReturn

SpecSketch == InitSketch /\ [][NextSketch]_vars

\* --------------------------------------- lineart_util.py, scribble_xdog
\* An array is the record of its shape and of where the resized picture
\* lies in it (row0, col0: the index of the picture's first row and
\* column); value is "image" for picture data, or the value of one tracked
\* pixel of a single-valued array.
ndarray(H, W, value) ==
    [kind |-> "ndarray", H |-> H, W |-> W, row0 |-> 0, col0 |-> 0,
     content_H |-> H, content_W |-> W, value |-> value]

\* np.round of the exact quotient num / den (ties go to the even integer)
np_round(num, den) ==
    LET q == num \div den
        r == num % den
    IN  IF 2 * r < den THEN q
        ELSE IF 2 * r > den THEN q + 1
        ELSE IF q % 2 = 0 THEN q ELSE q + 1

\* lines 36-39: int(np.round(float(raw) * k)), k = resolution / min side
target_side(raw, resolution, min_raw) == np_round(raw * resolution, min_raw)

\* np.ceil(float(x) / 64.0)
np_ceil_64th(x) == (x + 63) \div 64

\* a whole block of 64 added when x is already a multiple of 64
pad64_full_block(x) == 64 - (x % 64)

pad64(x) == np_ceil_64th(x) * 64 - x

\* np.pad(img, [[top, bottom], [left, right], [0, 0]], mode='edge')
np_pad(img, top, bottom, left, right) ==
    [img EXCEPT !.H = img.H + top + bottom, !.W = img.W + left + right,
                !.row0 = img.row0 + top, !.col0 = img.col0 + left]

\* x[:H, :W], lines 44-45
remove_pad(x, H, W) ==
    [x EXCEPT !.H = Min(x.H, H), !.W = Min(x.W, W),
              !.content_H = Max(0, Min(x.row0 + x.content_H, H) - x.row0),
              !.content_W = Max(0, Min(x.col0 + x.content_W, W) - x.col0)]

\* arithmetic on np.uint8 values wraps modulo 256
uint8(x) == x % 256

\* line 65, for one pixel: 2 * (255 - dog) is computed in uint8
binarize(d, thr) == IF uint8(2 * uint8(255 - d)) > thr THEN 255 ELSE 0

\* thr_a as convert_pil_to_sketch passes it (16) and its default (32)
Thresholds == {16, 32}
MaxRaw == 3
MaxRes == 65
\* res as convert_pil_to_sketch passes it (2048), and small resolutions
Resolutions == (1 .. MaxRes) \cup {2048}

\* line 60, resize_image_with_pad lines 30-47
XdResize ==
    /\ xd_pc = "resize_image_with_pad"
    /\ H_target' = target_side(H_raw, res, Min(H_raw, W_raw))
    /\ W_target' = target_side(W_raw, res, Min(H_raw, W_raw))
    /\ H_pad' = pad64(H_target')
    /\ W_pad' = pad64(W_target')
    /\ img_padded' = np_pad(ndarray(H_target', W_target', "image"), 0, H_pad', 0, W_pad')
    /\ xd_pc' = "dog"
    /\ UNCHANGED <<H_raw, W_raw, res, thr_a, dog, result, removed>>
    /\ UNCHANGED <<aug_vars, cli_vars, input_folder, image_files, k, sk_pc, processed_image,
                   output_folder>>

\* lines 61-63: the difference of Gaussians of one pixel, clipped to
\* 0..255 and stored as uint8; its value depends on the picture
XdDog ==
    /\ xd_pc = "dog"
    /\ dog' \in 0 .. 255
    /\ xd_pc' = "binarize"
    /\ UNCHANGED <<H_raw, W_raw, res, thr_a, H_target, W_target, H_pad, W_pad, img_padded,
                   result, removed>>
    /\ UNCHANGED <<aug_vars, cli_vars, input_folder, image_files, k, sk_pc, processed_image,
                   output_folder>>

\* lines 64-65
XdBinarize ==
    /\ xd_pc = "binarize"
    /\ result' = [img_padded EXCEPT !.value = binarize(dog, thr_a)]
    /\ xd_pc' = "remove_pad"
    /\ UNCHANGED <<H_raw, W_raw, res, thr_a, H_target, W_target, H_pad, W_pad, img_padded,
                   dog, removed>>
    /\ UNCHANGED <<aug_vars, cli_vars, input_folder, image_files, k, sk_pc, processed_image,
                   output_folder>>

\* lines 66-67
XdRemovePad ==
    /\ xd_pc = "remove_pad"
    /\ removed' = remove_pad(result, H_target, W_target)
    /\ xd_pc' = "returned"
    /\ UNCHANGED <<H_raw, W_raw, res, thr_a, H_target, W_target, H_pad, W_pad, img_padded,
                   dog, result>>
    /\ UNCHANGED <<aug_vars, cli_vars, input_folder, image_files, k, sk_pc, processed_image,
                   output_folder>>

\* scribble_xdog(img, res, thr_a) called on an array of H_raw rows and
\* W_raw columns
InitXdog ==
    /\ H_raw \in 1 .. MaxRaw
    /\ W_raw \in 1 .. MaxRaw
    /\ res \in Resolutions
    /\ thr_a \in Thresholds
    /\ xd_pc = "resize_image_with_pad"
    /\ H_target = 0 /\ W_target = 0 /\ H_pad = 0 /\ W_pad = 0
    /\ img_padded = None
    /\ dog = 0
    /\ result = None
    /\ removed = None
    /\ input_folder = <<>>
    /\ image_files = <<>>
    /\ k = 0
    /\ sk_pc = "unused"
    /\ processed_image = None
    /\ output_folder = {}
    /\ source_img = None
    /\ target_img = None
    /\ params = DefaultSettings
    /\ pc = "idle"
    /\ exc = "none"
    /\ frame = NoFrame
    /\ LoopIdle
    /\ CliIdle

NextXdog == XdResize \/ XdDog \/ XdBinarize \/ XdRemovePad

SpecXdog == InitXdog /\ [][NextXdog]_vars

\* ================================================================ claims
\* The call of process_image_pair has returned its two images.
Returned == pc = "returned" /\ frame.live /\ frame.exc = "none"

Side == params.output_size[1]

\* C1: every pair process_image_pair returns, for every valid picture pair
\* and every setting, has width = height = the configured output size, and
\* the two images have the same dimensions.
C1_OutputShape ==
    Returned =>
        /\ params.output_size[1] = params.output_size[2]
        /\ frame.final_source.width = Side /\ frame.final_source.height = Side
        /\ frame.final_target.width = Side /\ frame.final_target.height = Side
        /\ frame.final_source.width = frame.final_target.width
        /\ frame.final_source.height = frame.final_target.height

\* a rotated, flipped, expanded draw whose two crops differ in size from
\* each other and from the output
C1_Witness ==
    /\ Returned
    /\ params.rotation_range > 0 /\ params.is_flip /\ params.expand_to_long_side
    /\ frame.crop_source_size # frame.crop_target_size
    /\ frame.crop_source_size # Side /\ frame.crop_target_size # Side
    /\ frame.crop_source_size > 0 /\ frame.crop_target_size > 0
    /\ frame.final_source.width = Side /\ frame.final_target.height = Side

Count(seq, x) == Cardinality({j \in DOMAIN seq : seq[j] = x})

\* C2: in one draw the angle and the flip decision are each sampled at most
\* once, and the sampled value is the one applied to the source and to the
\* target alike.
C2_SharedAngleAndFlip ==
    Returned =>
        /\ Count(frame.rng_calls, "uniform:angle") <= 1
        /\ Count(frame.rng_calls, "choice:is_horizontal") <= 1
        /\ frame.base_source.rotated = frame.base_target.rotated
        /\ frame.base_source.angle = frame.base_target.angle
        /\ frame.base_source.mirror = frame.base_target.mirror
        /\ frame.final_source.rotated = frame.final_target.rotated
        /\ frame.final_source.angle = frame.final_target.angle
        /\ frame.final_source.mirror = frame.final_target.mirror
        /\ params.rotation_range > 0 =>
              /\ frame.final_source.rotated /\ frame.final_source.angle = frame.angle
              /\ frame.final_target.rotated /\ frame.final_target.angle = frame.angle
        /\ params.is_flip =>
              /\ frame.final_source.mirror = frame.is_horizontal
              /\ frame.final_target.mirror = frame.is_horizontal

\* a draw turned by -90 degrees and mirrored, the two fill colours differing
C2_Witness ==
    /\ Returned
    /\ params.rotation_range > 0 /\ frame.angle = -90
    /\ params.is_flip /\ frame.is_horizontal
    /\ frame.final_source.angle = -90 /\ frame.final_target.angle = -90
    /\ frame.final_source.mirror /\ frame.final_target.mirror
    /\ frame.source_fill_color # frame.target_fill_color

\* The i-th source and the i-th target are the two images of one draw.
SameDraw(a, b) ==
    /\ a.role = "source" /\ b.role = "target"
    /\ a.rotated = b.rotated /\ a.angle = b.angle
    /\ a.mirror = b.mirror
    /\ a.canvas_scale = b.canvas_scale
    /\ b.box[1] = (a.box[1] * target_img.width) \div source_img.width
    /\ b.box[2] = (a.box[2] * target_img.height) \div source_img.height
    /\ a.width = Side /\ a.height = Side /\ b.width = Side /\ b.height = Side

\* C3: process_images returns two lists of exactly num_copies images, the
\* i-th source and the i-th target coming from the same draw (angle, flip,
\* scale, crop corner), every draw made on the same pictures and settings.
C3_BatchOfPairs ==
    /\ Len(aug_sources) = i /\ Len(aug_targets) = i /\ i <= params.num_copies
    /\ \A j \in 1..i : SameDraw(aug_sources[j], aug_targets[j])
    /\ pc = "returned" =>
          /\ Len(aug_sources) = params.num_copies
          /\ Len(aug_targets) = params.num_copies

\* two copies returned whose draws differ in angle, flip, scale and corner
C3_Witness ==
    /\ pc = "returned" /\ params.num_copies = 2 /\ Len(aug_sources) = 2
    /\ aug_sources[1].angle # aug_sources[2].angle
    /\ aug_sources[1].mirror # aug_sources[2].mirror
    /\ aug_sources[1].canvas_scale # aug_sources[2].canvas_scale
    /\ aug_sources[1].box # aug_sources[2].box
    /\ aug_targets[1].box # aug_targets[2].box
    /\ SameDraw(aug_sources[1], aug_targets[1])
    /\ SameDraw(aug_sources[2], aug_targets[2])

\* C4: the target crop's corner is the source's sampled corner rescaled by
\* the original dimensions with floor division, for any sizes; pictures of
\* different aspect ratios get these offsets too, the call does not raise.
C4_TargetOffset ==
    /\ pc # "raised"
    /\ Returned =>
          /\ frame.left_target = (frame.left_source * target_img.width) \div source_img.width
          /\ frame.top_target = (frame.top_source * target_img.height) \div source_img.height
          /\ frame.final_source.box[1] = frame.left_source
          /\ frame.final_source.box[2] = frame.top_source
          /\ frame.final_target.box[1] = frame.left_target
          /\ frame.final_target.box[2] = frame.top_target

\* pictures of different aspect ratios, turned by 90 degrees, an offset the
\* floor division truncates
C4_Witness ==
    /\ Returned
    /\ source_img.width * target_img.height # target_img.width * source_img.height
    /\ frame.base_source.rotated /\ frame.angle = 90
    /\ frame.base_source.width # source_img.width
    /\ frame.crop_source_size > 0 /\ frame.crop_target_size > 0
    /\ frame.top_source > 0
    /\ (frame.top_source * target_img.height) % source_img.height # 0
    /\ frame.top_target # frame.top_source
    /\ frame.final_target.box[2] = frame.top_target

\* rotation range 0, no flip, scale 1.0 to 1.0, no long-side expansion
NoOpSettings ==
    /\ params.rotation_range = 0
    /\ ~params.is_flip
    /\ params.min_scale = <<1, 1>> /\ params.max_scale = <<1, 1>>
    /\ ~params.expand_to_long_side

ShortSide(image) == Min(image.width, image.height)

\* C5 as stated: with the no-op settings the crop is the centre square,
\* offset ((width - side) / 2, (height - side) / 2).
C5_CenterCrop ==
    (Returned /\ NoOpSettings) =>
        /\ frame.crop_source_size = ShortSide(source_img)
        /\ frame.left_source = (source_img.width - ShortSide(source_img)) \div 2
        /\ frame.top_source = (source_img.height - ShortSide(source_img)) \div 2

\* C5 amended: with the no-op settings the crop is a square of side
\* min(width, height) of the unchanged picture whose corner is any point of
\* 0..width-side by 0..height-side; it is the whole picture when the
\* picture is square.
C5_RandomCrop ==
    (Returned /\ NoOpSettings) =>
        /\ frame.scaled_source = source_img
        /\ frame.scaled_target = target_img
        /\ frame.crop_source_size = ShortSide(source_img)
        /\ frame.crop_target_size = ShortSide(target_img)
        /\ frame.left_source \in 0..(source_img.width - ShortSide(source_img))
        /\ frame.top_source \in 0..(source_img.height - ShortSide(source_img))
        /\ frame.final_source.box =
              <<frame.left_source, frame.top_source,
                frame.left_source + ShortSide(source_img),
                frame.top_source + ShortSide(source_img)>>
        /\ source_img.width = source_img.height =>
              frame.left_source = 0 /\ frame.top_source = 0

\* a wide picture cropped at its right end, not at its centre
C5_Witness ==
    /\ Returned /\ NoOpSettings
    /\ source_img.width = 3 /\ source_img.height = 1
    /\ frame.left_source = 2 /\ frame.top_source = 0
    /\ frame.final_source.box = <<2, 0, 3, 1>>

\* long-side expansion on, rotation range 0, no flip, scale 1.0 to 1.0
ExpandOnlySettings ==
    /\ params.expand_to_long_side
    /\ params.rotation_range = 0
    /\ ~params.is_flip
    /\ params.min_scale = <<1, 1>> /\ params.max_scale = <<1, 1>>

LongSide(image) == IF image.width >= image.height THEN image.width ELSE image.height

\* the canvas is the square of the picture's long side, in the picture's
\* fill colour, the picture centred on it, and the crop is the whole canvas
Squared(image, canvas, px, py, crop, fill) ==
    /\ canvas.width = LongSide(image) /\ canvas.height = LongSide(image)
    /\ canvas.expanded /\ canvas.bg = fill
    /\ 2 * px \in {LongSide(image) - image.width, LongSide(image) - image.width - 1}
    /\ 2 * py \in {LongSide(image) - image.height, LongSide(image) - image.height - 1}
    /\ crop = LongSide(image)

\* C6: with long-side expansion, no rotation, no flip and scale 1.0, each
\* picture is cropped from a square canvas of side max(width, height) with
\* the picture centred on it, the crop is that whole square, and both
\* outputs have the output size; 800x400 gives an 800x800 canvas, paste
\* offset (0, 200), and 512x512 outputs.
C6_ExpandToLongSide ==
    (Returned /\ ExpandOnlySettings) =>
        /\ Squared(source_img, frame.scaled_source, frame.source_paste_x,
                   frame.source_paste_y, frame.crop_source_size, frame.source_fill_color)
        /\ Squared(target_img, frame.scaled_target, frame.target_paste_x,
                   frame.target_paste_y, frame.crop_target_size, frame.target_fill_color)
        /\ frame.final_source.box = <<0, 0, LongSide(source_img), LongSide(source_img)>>
        /\ frame.final_target.box = <<0, 0, LongSide(target_img), LongSide(target_img)>>
        /\ frame.final_source.width = Side /\ frame.final_source.height = Side
        /\ frame.final_target.width = Side /\ frame.final_target.height = Side
        /\ (source_img.width = 800 /\ source_img.height = 400) =>
              /\ frame.scaled_source.width = 800 /\ frame.scaled_source.height = 800
              /\ frame.source_paste_x = 0 /\ frame.source_paste_y = 200
              /\ frame.crop_source_size = 800
              /\ frame.final_source.width = 512 /\ frame.final_source.height = 512
              /\ frame.final_target.width = 512 /\ frame.final_target.height = 512

\* the test's 800x400 pair after the call
C6_Witness ==
    /\ Returned /\ ExpandOnlySettings
    /\ source_img.width = 800 /\ source_img.height = 400
    /\ frame.scaled_source.width = 800 /\ frame.scaled_source.height = 800
    /\ frame.source_paste_y = 200
    /\ frame.final_source.width = 512 /\ frame.final_target.width = 512

Policy(role, is_edge_mode_fill, is_avg_color_fill) ==
    IF is_edge_mode_fill THEN role \o "_edge"
    ELSE IF is_avg_color_fill THEN role \o "_mean"
    ELSE "white"

\* C7: each role's fill colour is its picture's edge-mode colour if its
\* edge-mode flag is set (whatever its average flag), else its average
\* colour if its average flag is set, else white; it is the colour painted
\* on that role's canvases and does not depend on the other role's flags.
C7_FillPriority ==
    Returned =>
        /\ frame.source_fill_color =
              Policy("source", params.source_is_edge_mode_fill, params.source_is_avg_color_fill)
        /\ frame.target_fill_color =
              Policy("target", params.target_is_edge_mode_fill, params.target_is_avg_color_fill)
        /\ frame.expanded_source.bg \in {"none", frame.source_fill_color}
        /\ frame.scaled_source.bg \in {"none", frame.source_fill_color}
        /\ frame.expanded_target.bg \in {"none", frame.target_fill_color}
        /\ frame.scaled_target.bg \in {"none", frame.target_fill_color}

\* both source flags set and target flags (average only) differing: the
\* source canvas is painted in the edge-mode colour, the target's in its
\* average colour
C7_Witness ==
    /\ Returned
    /\ params.source_is_edge_mode_fill /\ params.source_is_avg_color_fill
    /\ ~params.target_is_edge_mode_fill /\ params.target_is_avg_color_fill
    /\ frame.source_fill_color = "source_edge"
    /\ frame.target_fill_color = "target_mean"
    /\ frame.scaled_source.bg = "source_edge"
    /\ frame.scaled_target.bg = "target_mean"

\* the window cut from a canvas lies inside it and is not empty
WindowInside(left, top, size, canvas) ==
    /\ size > 0
    /\ 0 <= left /\ left + size <= canvas.width
    /\ 0 <= top /\ top + size <= canvas.height

\* C8: process_image_pair ends in an error, without cropping, whenever the
\* crop geometry is degenerate (a crop size of zero or less, a window
\* reaching outside its canvas): a call that returns has cut both windows
\* from inside their canvases.
C8_DegenerateCropRaises ==
    Returned =>
        /\ WindowInside(frame.left_source, frame.top_source, frame.crop_source_size,
                        frame.scaled_source)
        /\ WindowInside(frame.left_target, frame.top_target, frame.crop_target_size,
                        frame.scaled_target)

\* the batch conversion is over: it returned, or an exception left it
SketchOver == sk_pc \in {"returned", "raised"}

\* C9: in the batch sketch conversion a file whose conversion fails is
\* skipped and the loop goes on: once the batch is over, every image file
\* of the folder that converts is in the output folder.
C9_BadFileSkipped ==
    SketchOver =>
        \A j \in DOMAIN image_files :
            convert_file(image_files[j]).kind = "Image" =>
                \E o \in output_folder :
                    /\ o.name = image_files[j].name
                    /\ o.image = convert_file(image_files[j])

\* the command-line run is over: the loop ended, or an exception ended it
CliOver == cli_pc \in {"exit", "traceback"}

Derived(dir, name) == {f \in dir : f.of = name}

\* C10: after the command-line run, for every .png, .jpg or .jpeg file of
\* the source folder with a same-named file in the target folder, aug_source
\* and aug_target each hold exactly num_copies images derived from the pair.
C10_CopiesWritten ==
    CliOver =>
        \A j \in DOMAIN source_folder :
            (source_folder[j][2] \in {"png", "jpg", "jpeg"}
             /\ source_folder[j] \in target_folder) =>
                /\ Cardinality(Derived(aug_source_dir, source_folder[j])) = params.num_copies
                /\ Cardinality(Derived(aug_target_dir, source_folder[j])) = params.num_copies

\* the binarization of scribble_xdog has run
Binarized == xd_pc \in {"remove_pad", "returned"}

\* C11: for every 8-bit DoG value d and threshold t the pixel is white
\* (255) exactly when the true integer 2 * (255 - d), a value of 0..510, is
\* greater than t, and black (0) otherwise: the doubling does not wrap
\* modulo 256.
C11_ThresholdNoWrap ==
    Binarized =>
        /\ result.value \in {0, 255}
        /\ result.value = 255 <=> 2 * (255 - dog) > thr_a

\* resize_image_with_pad has returned
Padded == xd_pc \in {"dog", "binarize", "remove_pad", "returned"}

\* pad is the least amount that brings x up to a multiple of 64
LeastPad(x, pad) ==
    /\ pad \in 0 .. 63
    /\ (x + pad) % 64 = 0
    /\ \A q \in 0 .. 63 : (x + q) % 64 = 0 => pad <= q
    /\ x % 64 = 0 => pad = 0

\* C12: pad64(x) is in 0..63 and x + pad64(x) is the smallest multiple of
\* 64 that is >= x; the padding is added at the bottom and right only; and
\* remove_pad applied to an array of the padded shape gives the pre-pad
\* dimensions (H_target, W_target) with the unpadded pixels in place.
C12_PadThenRemovePad ==
    /\ Padded =>
          /\ H_target >= 1 /\ W_target >= 1
          /\ H_pad = pad64(H_target) /\ W_pad = pad64(W_target)
          /\ LeastPad(H_target, H_pad) /\ LeastPad(W_target, W_pad)
          /\ img_padded.H = H_target + H_pad /\ img_padded.W = W_target + W_pad
          /\ img_padded.row0 = 0 /\ img_padded.col0 = 0
          /\ img_padded.content_H = H_target /\ img_padded.content_W = W_target
          /\ remove_pad(img_padded, H_target, W_target) = ndarray(H_target, W_target, "image")
    /\ xd_pc = "returned" =>
          /\ result.H = img_padded.H /\ result.W = img_padded.W
          /\ removed.H = H_target /\ removed.W = W_target
          /\ removed.row0 = 0 /\ removed.col0 = 0
          /\ removed.content_H = H_target /\ removed.content_W = W_target
          /\ removed.value = result.value

\* a 2x3 array at resolution 64: 64 rows need no padding, 96 columns are
\* padded by 32 to 128, and remove_pad gives 64x96 back
C12_Witness ==
    /\ xd_pc = "returned"
    /\ H_raw = 2 /\ W_raw = 3 /\ res = 64
    /\ H_target = 64 /\ H_pad = 0
    /\ W_target = 96 /\ W_pad = 32
    /\ img_padded.H = 64 /\ img_padded.W = 128
    /\ removed.H = 64 /\ removed.W = 96

\* image is the square canvas of side max(width, height) of picture
\* orig, turned by the sampled angle
ExpandedThenRotated(image, orig) ==
    /\ image.width = LongSide(orig) /\ image.height = LongSide(orig)
    /\ orig.width # orig.height => image.expanded

\* C13: with long-side expansion on, the expansion holds for every later
\* step whatever the rotation range: the image rotated is the square
\* canvas of side max(width, height), so the canvases the crop is taken
\* from come from the expanded picture, never from the un-expanded one.
C13_ExpansionSurvivesRotation ==
    (Returned /\ params.expand_to_long_side) =>
        /\ ExpandedThenRotated(frame.base_source, source_img)
        /\ ExpandedThenRotated(frame.base_target, target_img)

\* the output written for the j-th image file, if any
OutputsOf(j) == {o \in output_folder : o.name = image_files[j].name}

\* Every output is the finished sketch of a file the loop is done with;
\* a file that failed, or that the loop has not finished, has none.
WrittenAfterSuccess ==
    /\ \A o \in output_folder :
          \E j \in 1 .. k :
             /\ o.name = image_files[j].name
             /\ convert_file(image_files[j]).kind = "Image"
             /\ o.image = convert_file(image_files[j])
    /\ \A j \in DOMAIN image_files :
          (j > k \/ convert_file(image_files[j]).kind = "raise") => OutputsOf(j) = {}

\* No step removes or changes an output, and the step that fails writes
\* nothing.
EarlierOutputsKept ==
    /\ output_folder \subseteq output_folder'
    /\ sk_pc' = "raised" => output_folder' = output_folder

\* C14: in the batch sketch conversion (started on an empty output
\* folder) a file's output is written only after that file's conversion
\* has succeeded, and a failure on file k leaves the outputs of the files
\* before it present and unchanged.
C14_OutputAfterSuccess == [](WrittenAfterSuccess) /\ [][EarlierOutputsKept]_vars

\* the second file failed after the first was written: the first file's
\* sketch is the only output
C14_Witness ==
    /\ sk_pc = "raised" /\ k = 1 /\ Len(image_files) = 2
    /\ convert_file(image_files[2]).kind = "raise"
    /\ output_folder = {[name |-> image_files[1].name, image |-> convert_file(image_files[1])]}

\* the two pictures have the same aspect ratio
SameAspect ==
    target_img.width * source_img.height = target_img.height * source_img.width

\* the window lies inside the canvas it is cut from
InsideCanvas(left, top, size, canvas) ==
    /\ 0 <= left /\ left + size <= canvas.width
    /\ 0 <= top /\ top + size <= canvas.height

\* C15: for pictures of the same aspect ratio, rotation disabled, every
\* scale and every source corner the code can sample, the target crop
\* window lies entirely inside the target canvas, as the source window
\* lies inside the source canvas (stated here for the draws whose two crops
\* are not empty).
C15_TargetWindowInside ==
    (/\ Returned /\ SameAspect /\ params.rotation_range = 0
     /\ frame.crop_source_size > 0 /\ frame.crop_target_size > 0) =>
        /\ InsideCanvas(frame.left_source, frame.top_source, frame.crop_source_size,
                        frame.scaled_source)
        /\ InsideCanvas(frame.left_target, frame.top_target, frame.crop_target_size,
                        frame.scaled_target)

====
